---------------------------- MODULE Spec2Model ----------------------------
(***************************************************************************)
(* A model of src/app.py: the image-sharing application (register, login,  *)
(* logout, upload, feed, profile) and the market-quote snapshot.           *)
(*                                                                         *)
(* Clients (each served by a worker of its own) run handlers concurrently; *)
(* a handler that commits after a read or a write is two steps, and the    *)
(* worker may die between them.  Four specifications share the variables:  *)
(*   Spec        registration and the sessions, from the empty database,   *)
(*               with every input of the register and login forms;         *)
(*   SpecUpload  login, logout and upload with every kind of file name,    *)
(*               from a state of Spec in which two users have registered;  *)
(*   SpecFeed    uploads over time, the feed and the profiles, from a      *)
(*               state of SpecUpload in which both users have logged in;   *)
(*   SpecMarket  fetch_market_data and GET /market in one process: the     *)
(*               timer thread, the initial fetch and request threads.      *)
(* Strings that the code takes apart (file names) are sequences of         *)
(* one-character strings; strings it only compares or measures are TLA+    *)
(* strings.                                                                *)
(***************************************************************************)
EXTENDS Integers, Sequences, FiniteSets, TLC

VARIABLES
    users,              \* table User: sequence of rows, in insertion order
    posts,              \* table Post: sequence of rows, in insertion order
    files,              \* UPLOAD_FOLDER: stored file name -> number of the save that wrote it
    nsaved,             \* number of file.save calls made so far
    session,            \* client -> user id the session is bound to, or Anonymous
    pc,                 \* client -> position of the handler it is running
    local,              \* client -> the local variables of that handler
    now,                \* the clock, in ticks
    resp,               \* what the last step answered (route, client, outcome)
    market_data_cache,  \* global market_data_cache: a reference to a dict object
    heap,               \* dict objects: reference -> (ticker -> entry)
    mode,               \* os.environ ENABLE_SCHEDULER
    provider,           \* the quote provider: ticker -> what it has for that ticker
    tpc,                \* thread -> position in fetch_market_data / market
    tdata,              \* thread -> its local dict `data` (a reference) and the number of its call
    tidx,               \* thread -> number of tickers its loop has handled
    tref,               \* thread -> the reference jsonify was handed
    npolls,             \* number of calls of fetch_market_data so far
    mresp               \* what the last step of the market side answered

appvars == <<users, posts, files, nsaved, session, pc, local, now, resp>>
mktvars == <<market_data_cache, heap, mode, provider, tpc, tdata, tidx, tref, npolls, mresp>>
vars == <<users, posts, files, nsaved, session, pc, local, now, resp,
          market_data_cache, heap, mode, provider, tpc, tdata, tidx, tref, npolls, mresp>>

None == "None"

\* The id of no user: the session of an anonymous client holds no user id.
Anonymous == 0

(***************************************************************************)
(* Bounds of the model.                                                    *)
(***************************************************************************)
MaxTime == 2            \* the clock stops after this many ticks
TicksPerSecond == 1     \* clock ticks in one second
MaxUploads == 1         \* file.save calls explored under SpecUpload
MaxFeedUploads == 2     \* file.save calls explored under SpecFeed
MaxUsers == 3           \* rows of User explored (more than the names that validate)
MaxPolls == 3           \* calls of fetch_market_data explored

Clients == {"c1", "c2"}

Range(s) == {s[i] : i \in DOMAIN s}

Max(S) == CHOOSE x \in S : \A y \in S : y <= x

(***************************************************************************)
(* Inputs of the requests.                                                 *)
(***************************************************************************)
Usernames == {"al", "alice", "bob"}
Passwords == {"abc", "pass1", "pass2"}
Captions == {"hi"}
Salts == {1, 2}

FileNames ==
    { <<>>,
      <<"c", ".", "p", "n", "g">>,
      <<"c", ".", "J", "P", "G">>,
      <<"c", ".", "j", "p", "e", "g">>,
      <<"a", ".", "b", ".", "G", "i", "f">>,
      <<"c", ".", "e", "x", "e">>,
      <<"p", "n", "g">>,
      <<"c", ".", "p", "n", "g", ".">>,
      <<"c", ".", "p", "n", "g", "/">> }

(***************************************************************************)
(* str.lower on the characters of the model.                               *)
(***************************************************************************)
UpperCase == <<"A", "B", "C", "D", "E", "F", "G", "H", "I", "J", "K", "L", "M",
               "N", "O", "P", "Q", "R", "S", "T", "U", "V", "W", "X", "Y", "Z">>
LowerCase == <<"a", "b", "c", "d", "e", "f", "g", "h", "i", "j", "k", "l", "m",
               "n", "o", "p", "q", "r", "s", "t", "u", "v", "w", "x", "y", "z">>

LowerChar(ch) ==
    IF \E i \in DOMAIN UpperCase : UpperCase[i] = ch
    THEN LowerCase[CHOOSE i \in DOMAIN UpperCase : UpperCase[i] = ch]
    ELSE ch

lower(s) == [i \in DOMAIN s |-> LowerChar(s[i])]

ALLOWED_EXTENSIONS ==
    { <<"p", "n", "g">>, <<"j", "p", "g">>, <<"j", "p", "e", "g">>, <<"g", "i", "f">> }

\* filename.rsplit('.', 1): scan from the right for a '.', split there once.
RECURSIVE rfind(_, _)
rfind(s, i) ==
    IF i = 0 THEN 0
    ELSE IF s[i] = "." THEN i
    ELSE rfind(s, i - 1)

rsplit(s) ==
    LET d == rfind(s, Len(s))
    IN  IF d = 0 THEN <<s>>
        ELSE <<SubSeq(s, 1, d - 1), SubSeq(s, d + 1, Len(s))>>

allowed_file_no_lower(filename) ==
    /\ "." \in Range(filename)
    /\ rsplit(filename)[2] \in ALLOWED_EXTENSIONS

allowed_file(filename) ==
    /\ "." \in Range(filename)
    /\ lower(rsplit(filename)[2]) \in ALLOWED_EXTENSIONS

(***************************************************************************)
(* str(int): the decimal digits of a natural number.                       *)
(***************************************************************************)
DigitChars == <<"0", "1", "2", "3", "4", "5", "6", "7", "8", "9">>

RECURSIVE str(_)
str(n) ==
    IF n < 10 THEN <<DigitChars[n + 1]>>
    ELSE Append(str(n \div 10), DigitChars[(n % 10) + 1])

(***************************************************************************)
(* werkzeug.utils.secure_filename on a POSIX host: path separators become  *)
(* spaces, runs of white space become one '_', every character outside     *)
(* [A-Za-z0-9_.-] is dropped, and leading and trailing '.' and '_' are     *)
(* stripped.                                                               *)
(***************************************************************************)
SafeChars ==
    Range(UpperCase) \cup Range(LowerCase) \cup Range(DigitChars) \cup {"_", ".", "-"}

RECURSIVE split(_, _, _)
\* str.split(): the maximal runs of non-space characters of s, in order.
split(s, cur, acc) ==
    IF s = <<>> THEN (IF cur = <<>> THEN acc ELSE Append(acc, cur))
    ELSE IF Head(s) = " "
         THEN split(Tail(s), <<>>, IF cur = <<>> THEN acc ELSE Append(acc, cur))
         ELSE split(Tail(s), Append(cur, Head(s)), acc)

RECURSIVE join(_)
\* "_".join(parts)
join(parts) ==
    IF parts = <<>> THEN <<>>
    ELSE IF Len(parts) = 1 THEN parts[1]
    ELSE parts[1] \o <<"_">> \o join(Tail(parts))

RECURSIVE lstrip(_)
lstrip(s) ==
    IF s # <<>> /\ Head(s) \in {".", "_"} THEN lstrip(Tail(s)) ELSE s

RECURSIVE rstrip(_)
rstrip(s) ==
    IF s # <<>> /\ s[Len(s)] \in {".", "_"} THEN rstrip(SubSeq(s, 1, Len(s) - 1)) ELSE s

secure_filename(s) ==
    LET nosep == [i \in DOMAIN s |-> IF s[i] = "/" THEN " " ELSE s[i]]
        joined == join(split(nosep, <<>>, <<>>))
        kept == SelectSeq(joined, LAMBDA ch : ch \in SafeChars)
    IN  rstrip(lstrip(kept))

\* int(datetime.utcnow().timestamp()): the clock in whole seconds.
timestamp(t) == t \div TicksPerSecond

\* f"{current_user.id}_{int(datetime.utcnow().timestamp())}_{file.filename}", secured.
stored_filename(uid, t, filename) ==
    secure_filename(str(uid) \o <<"_">> \o str(timestamp(t)) \o <<"_">> \o filename)

(***************************************************************************)
(* werkzeug.security: generate_password_hash draws a salt and stores it    *)
(* with the digest; check_password_hash recomputes the digest with the     *)
(* stored salt.  The digest is idealised as collision free.                *)
(***************************************************************************)
digest(salt, password) == <<"pbkdf2", salt, password>>

generate_password_hash(password, salt) == [salt |-> salt, digest |-> digest(salt, password)]

check_password_hash_any(pwhash, password) == TRUE

check_password_hash(pwhash, password) == pwhash.digest = digest(pwhash.salt, password)

(***************************************************************************)
(* Queries.                                                                *)
(***************************************************************************)
\* User.query.filter_by(username=...).first(): the matching rows, in table order.
filter_by_username(username) == SelectSeq(users, LAMBDA u : u.username = username)

\* User.query.get(id)
load_user(user_id) ==
    IF \E i \in DOMAIN users : users[i].id = user_id
    THEN users[CHOOSE i \in DOMAIN users : users[i].id = user_id]
    ELSE [id |-> Anonymous]

current_user(c) == session[c]

is_authenticated(c) == session[c] # Anonymous /\ load_user(session[c]).id # Anonymous

\* ORDER BY created_at DESC over a sequence of rows: insertion of each row
\* before the first row that is not newer than it.
RECURSIVE insert_desc(_, _)
insert_desc(row, sorted) ==
    IF sorted = <<>> THEN <<row>>
    ELSE IF row.created_at >= Head(sorted).created_at THEN <<row>> \o sorted
    ELSE <<Head(sorted)>> \o insert_desc(row, Tail(sorted))

unordered(rows) == rows

RECURSIVE order_by_created_at_desc(_)
order_by_created_at_desc(rows) ==
    IF rows = <<>> THEN <<>>
    ELSE insert_desc(Head(rows), order_by_created_at_desc(Tail(rows)))

\* index(): Post.query.order_by(Post.created_at.desc()).all()
index_posts == order_by_created_at_desc(posts)

\* profile(): Post.query.filter_by(user_id=user.id).order_by(...).all()
profile_posts(user) ==
    order_by_created_at_desc(SelectSeq(posts, LAMBDA p : p.user_id = user.id))


(***************************************************************************)
(* Form validators.                                                        *)
(***************************************************************************)
\* RegisterForm: username 3..80 characters, password at least 4, confirm equal.
RegisterForm_validate(username, password, confirm) ==
    /\ username # "" /\ Len(username) >= 3 /\ Len(username) <= 80
    /\ password # "" /\ Len(password) >= 4
    /\ confirm # "" /\ confirm = password

\* LoginForm: both fields required.
LoginForm_validate(username, password) == username # "" /\ password # ""

\* unique=True on User.username: the storage backend refuses a second row.
no_unique_constraint(username) == TRUE

unique_username(username) == \A i \in DOMAIN users : users[i].username # username

(***************************************************************************)
(* Responses and handler locals.                                           *)
(***************************************************************************)
\* A response: the request it answers (route, client, form inputs) and the outcome.
Response(route, c, arg, status, flash, location, listing) ==
    [route |-> route, client |-> c, arg |-> arg, status |-> status, flash |-> flash,
     location |-> location, posts |-> listing]

NoResp == Response("-", None, <<>>, 0, None, None, <<>>)

NoLocal == [username |-> None, password |-> None, filename |-> <<>>,
            caption |-> None, user_id |-> Anonymous]

\* The handler has not answered yet.
Pending(route, c, arg) == Response(route, c, arg, 0, None, None, <<>>)

\* login_required: an unauthenticated request is sent to login_view.
Unauthorized(route, c, arg) ==
    Response(route, c, arg, 302, "Please log in to access this page.", "login", <<>>)

(***************************************************************************)
(* Market data.  A dict is an object on the heap and a variable holds a    *)
(* reference to it: reference 0 is the dict market_data_cache is bound to  *)
(* at import, reference n the dict `data` of the n-th call of              *)
(* fetch_market_data.  An entry carries, beside 'last' and 'change', the   *)
(* number of the call that produced it.                                    *)
(***************************************************************************)
tickers == <<"^DJI", "^GSPC", "^IXIC", "AAPL", "MSFT">>

Threads == {"main", "sched", "r1", "r2"}
Requests == {"r1", "r2"}

\* What the provider has for a ticker: a day of history, only fast_info, or nothing.
Providers ==
    { [t \in Range(tickers) |-> "history"],
      [t \in Range(tickers) |-> "nothing"],
      [t \in Range(tickers) |->
          IF t = "AAPL" THEN "fast_info" ELSE IF t = "MSFT" THEN "nothing" ELSE "history"] }

\* The body of the for loop: data[t] = {'last': last_price, 'change': change}
quote(t, poll) ==
    IF provider[t] = "history"
    THEN [last |-> "float", change |-> "float", poll |-> poll]
    ELSE IF provider[t] = "fast_info"
    THEN [last |-> "float", change |-> None, poll |-> poll]
    ELSE [last |-> None, change |-> None, poll |-> poll]

NoData == [ref |-> 0, poll |-> 0]

\* The idle market side, scheduler disabled.
InitMarket ==
    /\ market_data_cache = 0
    /\ heap = (0 :> <<>>)
    /\ mode = "0"
    /\ provider = [t \in Range(tickers) |-> "history"]
    /\ tpc = [t \in Threads |-> IF t \in Requests THEN "idle" ELSE "off"]
    /\ tdata = [t \in Threads |-> NoData]
    /\ tidx = [t \in Threads |-> 0]
    /\ tref = [t \in Threads |-> 0]
    /\ npolls = 0
    /\ mresp = [route |-> "-"]

\* The state after import: db.create_all() on an empty database, no session.
Init ==
    /\ users = <<>>
    /\ posts = <<>>
    /\ files = <<>>
    /\ nsaved = 0
    /\ session = [c \in Clients |-> Anonymous]
    /\ pc = [c \in Clients |-> "idle"]
    /\ local = [c \in Clients |-> NoLocal]
    /\ now = 0
    /\ resp = NoResp
    /\ InitMarket

(***************************************************************************)
(* POST /register                                                          *)
(***************************************************************************)
register(c, username, password, confirm) ==
    /\ pc[c] = "idle"
    /\ IF ~RegisterForm_validate(username, password, confirm)
       THEN /\ resp' = Response("register", c, <<username, password, confirm>>,
                                200, None, None, <<>>)
            /\ UNCHANGED <<pc, local>>
       ELSE IF filter_by_username(username) # <<>>
       THEN /\ resp' = Response("register", c, <<username, password, confirm>>,
                                302, "Username already taken", "register", <<>>)
            /\ UNCHANGED <<pc, local>>
       ELSE /\ pc' = [pc EXCEPT ![c] = "register_commit"]
            /\ local' = [local EXCEPT ![c] =
                            [NoLocal EXCEPT !.username = username, !.password = password]]
            /\ resp' = Pending("register", c, <<username, password, confirm>>)
    /\ UNCHANGED <<users, posts, files, nsaved, session, now, mktvars>>

\* user.set_password(...); db.session.add(user); db.session.commit()
register_commit(c) ==
    /\ pc[c] = "register_commit"
    /\ Len(users) < MaxUsers
    /\ \E salt \in Salts :
          LET arg == <<local[c].username, local[c].password, local[c].password>>
              user == [id |-> Len(users) + 1,
                       username |-> local[c].username,
                       password_hash |-> generate_password_hash(local[c].password, salt)]
          IN  IF unique_username(user.username)
              THEN /\ users' = Append(users, user)
                   /\ resp' = Response("register", c, arg, 302,
                                       "Account created. Please log in.", "login", <<>>)
              ELSE /\ users' = users
                   /\ resp' = Response("register", c, arg, 500, None, None, <<>>)
    /\ pc' = [pc EXCEPT ![c] = "idle"]
    /\ local' = [local EXCEPT ![c] = NoLocal]
    /\ UNCHANGED <<posts, files, nsaved, session, now, mktvars>>

(***************************************************************************)
(* POST /login, GET /logout                                                *)
(***************************************************************************)
login(c, username, password) ==
    /\ pc[c] = "idle"
    /\ IF ~LoginForm_validate(username, password)
       THEN /\ resp' = Response("login", c, <<username, password>>, 200, None, None, <<>>)
            /\ UNCHANGED session
       ELSE LET found == filter_by_username(username)
            IN  IF found # <<>> /\ check_password_hash(Head(found).password_hash, password)
                THEN /\ session' = [session EXCEPT ![c] = Head(found).id]
                     /\ resp' = Response("login", c, <<username, password>>, 302,
                                         "Logged in successfully", "index", <<>>)
                ELSE /\ resp' = Response("login", c, <<username, password>>, 200,
                                         "Invalid credentials", None, <<>>)
                     /\ UNCHANGED session
    /\ UNCHANGED <<users, posts, files, nsaved, pc, local, now, mktvars>>

logout(c) ==
    /\ pc[c] = "idle"
    /\ IF ~is_authenticated(c)
       THEN /\ resp' = Unauthorized("logout", c, <<>>)
            /\ UNCHANGED session
       ELSE /\ session' = [session EXCEPT ![c] = Anonymous]
            /\ resp' = Response("logout", c, <<>>, 302, "Logged out", "index", <<>>)
    /\ UNCHANGED <<users, posts, files, nsaved, pc, local, now, mktvars>>

(***************************************************************************)
(* POST /upload                                                            *)
(***************************************************************************)
\* file.save(filepath): the file of that name is created or replaced.
save_nothing(stored) == files

save(stored) == (stored :> (nsaved + 1)) @@ files

login_not_required(c) == TRUE

login_required(c) == is_authenticated(c)

upload(c, has_image, filename, caption) ==
    /\ pc[c] = "idle"
    /\ IF ~login_required(c)
       THEN /\ resp' = Unauthorized("upload", c, <<has_image, filename>>)
            /\ UNCHANGED <<files, nsaved, pc, local>>
       ELSE IF ~has_image
       THEN /\ resp' = Response("upload", c, <<has_image, filename>>, 302,
                                "No image part", "index", <<>>)
            /\ UNCHANGED <<files, nsaved, pc, local>>
       ELSE IF filename = <<>>
       THEN /\ resp' = Response("upload", c, <<has_image, filename>>, 302,
                                "No selected file", "index", <<>>)
            /\ UNCHANGED <<files, nsaved, pc, local>>
       ELSE IF filename # <<>> /\ allowed_file(filename)
       THEN LET stored == stored_filename(current_user(c), now, filename)
            IN  /\ nsaved' = nsaved + 1
                /\ files' = save(stored)
                /\ pc' = [pc EXCEPT ![c] = "upload_commit"]
                /\ local' = [local EXCEPT ![c] =
                                [NoLocal EXCEPT !.filename = stored, !.caption = caption,
                                                !.user_id = current_user(c)]]
                /\ resp' = Pending("upload", c, <<has_image, filename>>)
       ELSE /\ resp' = Response("upload", c, <<has_image, filename>>, 302,
                                "Invalid file type", "index", <<>>)
            /\ UNCHANGED <<files, nsaved, pc, local>>
    /\ UNCHANGED <<users, posts, session, now, mktvars>>

\* post = Post(...); db.session.add(post); db.session.commit()
upload_commit(c) ==
    /\ pc[c] = "upload_commit"
    /\ posts' = Append(posts, [id |-> Len(posts) + 1,
                               image_filename |-> local[c].filename,
                               caption |-> local[c].caption,
                               user_id |-> local[c].user_id,
                               created_at |-> now])
    /\ resp' = Response("upload", c, <<>>, 302, "Posted!", "index", <<>>)
    /\ pc' = [pc EXCEPT ![c] = "idle"]
    /\ local' = [local EXCEPT ![c] = NoLocal]
    /\ UNCHANGED <<users, files, nsaved, session, now, mktvars>>

(***************************************************************************)
(* GET /, GET /user/<username>                                             *)
(***************************************************************************)
index(c) ==
    /\ pc[c] = "idle"
    /\ resp' = Response("index", c, <<>>, 200, None, None, index_posts)
    /\ UNCHANGED <<users, posts, files, nsaved, session, pc, local, now, mktvars>>

profile(c, username) ==
    /\ pc[c] = "idle"
    /\ LET found == filter_by_username(username)
       IN  IF found = <<>>
           THEN resp' = Response("profile", c, <<username>>, 404, None, None, <<>>)
           ELSE resp' = Response("profile", c, <<username>>, 200, None, Head(found).username,
                                 profile_posts(Head(found)))
    /\ UNCHANGED <<users, posts, files, nsaved, session, pc, local, now, mktvars>>

(***************************************************************************)
(* The environment: the worker running a handler dies before the handler   *)
(* finishes; time passes.                                                  *)
(***************************************************************************)
crash(c) ==
    /\ pc[c] # "idle"
    /\ pc' = [pc EXCEPT ![c] = "idle"]
    /\ local' = [local EXCEPT ![c] = NoLocal]
    /\ resp' = Response("crash", c, <<>>, 0, None, None, <<>>)
    /\ UNCHANGED <<users, posts, files, nsaved, session, now, mktvars>>

tick ==
    /\ now < MaxTime
    /\ now' = now + 1
    /\ resp' = NoResp
    /\ UNCHANGED <<users, posts, files, nsaved, session, pc, local, mktvars>>

(***************************************************************************)
(* Spec: registration and the sessions.  Every input of the three forms.   *)
(***************************************************************************)
Next ==
    \/ \E c \in Clients, u \in Usernames, p \in Passwords, cf \in Passwords :
          register(c, u, p, cf)
    \/ \E c \in Clients : register_commit(c)
    \/ \E c \in Clients, u \in Usernames \cup {""}, p \in Passwords : login(c, u, p)
    \/ \E c \in Clients : logout(c)
    \/ \E c \in Clients : crash(c)

Spec == Init /\ [][Next]_vars

(***************************************************************************)
(* SpecUpload: the uploads, the feed and the profiles, from a state in     *)
(* which alice and bob have registered.                                    *)
(***************************************************************************)
Registered ==
    <<[id |-> 1, username |-> "alice", password_hash |-> generate_password_hash("pass1", 1)],
      [id |-> 2, username |-> "bob", password_hash |-> generate_password_hash("pass2", 2)]>>

InitUpload ==
    /\ users = Registered
    /\ posts = <<>>
    /\ files = <<>>
    /\ nsaved = 0
    /\ session = [c \in Clients |-> Anonymous]
    /\ pc = [c \in Clients |-> "idle"]
    /\ local = [c \in Clients |-> NoLocal]
    /\ now = 0
    /\ resp = NoResp
    /\ InitMarket

NextUpload ==
    \/ \E c \in Clients, u \in {"alice", "bob"}, p \in {"pass1", "pass2"} : login(c, u, p)
    \/ \E c \in Clients : logout(c)
    \/ \E c \in Clients, f \in FileNames, cap \in Captions :
          upload(c, TRUE, f, cap) /\ nsaved' <= MaxUploads
    \/ \E c \in Clients, cap \in Captions : upload(c, FALSE, <<>>, cap)
    \/ \E c \in Clients : upload_commit(c)
    \/ \E c \in Clients : crash(c)

SpecUpload == InitUpload /\ [][NextUpload]_vars

(***************************************************************************)
(* SpecFeed: uploads over time and the listings, from a state in which     *)
(* alice and bob have registered and each has logged in from one client.   *)
(***************************************************************************)
FeedFileNames ==
    { <<"c", " ", "d", ".", "g", "i", "f">>,
      <<"c", "_", "d", ".", "g", "i", "f">>,
      <<"c", ".", "e", "x", "e">> }

InitFeed ==
    /\ users = Registered
    /\ posts = <<>>
    /\ files = <<>>
    /\ nsaved = 0
    /\ session = [c \in Clients |-> IF c = "c1" THEN 1 ELSE 2]
    /\ pc = [c \in Clients |-> "idle"]
    /\ local = [c \in Clients |-> NoLocal]
    /\ now = 0
    /\ resp = NoResp
    /\ InitMarket

NextFeed ==
    \/ \E c \in Clients, f \in FeedFileNames, cap \in Captions :
          upload(c, TRUE, f, cap) /\ nsaved' <= MaxFeedUploads
    \/ \E c \in Clients : upload_commit(c)
    \/ \E c \in Clients : index(c)
    \/ \E c \in Clients, u \in Usernames : profile(c, u)
    \/ tick

SpecFeed == InitFeed /\ [][NextFeed]_vars

(***************************************************************************)
(* SpecMarket: fetch_market_data and GET /market.                          *)
(***************************************************************************)
\* What a step answers or logs: for GET /market the reference jsonify was handed and
\* the JSON object; for a failed fetch the entries it had made and discards.
MarketResponse(route, t, outcome, ref, json) ==
    [route |-> route, thread |-> t, outcome |-> outcome, ref |-> ref, json |-> json]

NoMarketResp == [route |-> "-"]

\* Where a thread continues when fetch_market_data returns.
return_to(t) ==
    IF t = "main" THEN "done" ELSE IF t = "sched" THEN "idle" ELSE "jsonify"

\* Dict objects no variable refers to are freed.
collect(h, roots) == [r \in (DOMAIN h) \cap roots |-> h[r]]

roots(cache, data, ref) ==
    {cache} \cup {data[t].ref : t \in Threads} \cup {ref[t] : t \in Threads}

\* data = {}; try: ...
fetch_begin_in_place(t) ==
    /\ npolls' = npolls + 1
    /\ tdata' = [tdata EXCEPT ![t] = [ref |-> market_data_cache, poll |-> npolls + 1]]
    /\ heap' = heap
    /\ tidx' = [tidx EXCEPT ![t] = 0]
    /\ tpc' = [tpc EXCEPT ![t] = "Tickers"]
    /\ mresp' = NoMarketResp
    /\ UNCHANGED <<market_data_cache, mode, provider, tref>>

fetch_begin(t) ==
    /\ npolls' = npolls + 1
    /\ tdata' = [tdata EXCEPT ![t] = [ref |-> npolls + 1, poll |-> npolls + 1]]
    /\ heap' = ((npolls + 1) :> <<>>) @@ heap
    /\ tidx' = [tidx EXCEPT ![t] = 0]
    /\ tpc' = [tpc EXCEPT ![t] = "Tickers"]
    /\ mresp' = NoMarketResp
    /\ UNCHANGED <<market_data_cache, mode, provider, tref>>

\* except Exception as e: print("Market fetch error:", e); return
fetch_except_store(t) ==
    /\ market_data_cache' = tdata[t].ref
    /\ tdata' = [tdata EXCEPT ![t] = NoData]
    /\ tidx' = [tidx EXCEPT ![t] = 0]
    /\ heap' = collect(heap, roots(market_data_cache', tdata', tref))
    /\ tpc' = [tpc EXCEPT ![t] = return_to(t)]
    /\ mresp' = MarketResponse("fetch", t, "Market fetch error", 0, heap[tdata[t].ref])
    /\ UNCHANGED <<mode, provider, tref, npolls>>

fetch_except(t) ==
    /\ tdata' = [tdata EXCEPT ![t] = NoData]
    /\ tidx' = [tidx EXCEPT ![t] = 0]
    /\ heap' = collect(heap, roots(market_data_cache, tdata', tref))
    /\ tpc' = [tpc EXCEPT ![t] = return_to(t)]
    /\ mresp' = MarketResponse("fetch", t, "Market fetch error", 0, heap[tdata[t].ref])
    /\ UNCHANGED <<market_data_cache, mode, provider, tref, npolls>>

\* yf_tickers = yf.Tickers(' '.join(tickers)): returns, or raises.
fetch_Tickers(t) ==
    /\ tpc[t] = "Tickers"
    /\ \/ /\ tpc' = [tpc EXCEPT ![t] = "loop"]
          /\ mresp' = NoMarketResp
          /\ UNCHANGED <<market_data_cache, heap, mode, provider, tdata, tidx, tref, npolls>>
       \/ fetch_except(t)

\* One iteration of `for t in tickers`: the provider answers, or a call raises.
fetch_ticker_skip_nothing(t) ==
    /\ tpc[t] = "loop"
    /\ tidx[t] < Len(tickers)
    /\ \/ LET k == tickers[tidx[t] + 1]
              d == tdata[t].ref
          IN  /\ heap' = IF provider[k] = "nothing" THEN heap
                         ELSE [heap EXCEPT ![d] = (k :> quote(k, tdata[t].poll)) @@ heap[d]]
              /\ tidx' = [tidx EXCEPT ![t] = tidx[t] + 1]
              /\ mresp' = NoMarketResp
              /\ UNCHANGED <<market_data_cache, mode, provider, tpc, tdata, tref, npolls>>
       \/ fetch_except(t)

fetch_ticker(t) ==
    /\ tpc[t] = "loop"
    /\ tidx[t] < Len(tickers)
    /\ \/ LET k == tickers[tidx[t] + 1]
              d == tdata[t].ref
          IN  /\ heap' = [heap EXCEPT ![d] = (k :> quote(k, tdata[t].poll)) @@ heap[d]]
              /\ tidx' = [tidx EXCEPT ![t] = tidx[t] + 1]
              /\ mresp' = NoMarketResp
              /\ UNCHANGED <<market_data_cache, mode, provider, tpc, tdata, tref, npolls>>
       \/ fetch_except(t)

\* global market_data_cache; market_data_cache = data
fetch_store(t) ==
    /\ tpc[t] = "loop"
    /\ tidx[t] = Len(tickers)
    /\ market_data_cache' = tdata[t].ref
    /\ tdata' = [tdata EXCEPT ![t] = NoData]
    /\ tidx' = [tidx EXCEPT ![t] = 0]
    /\ heap' = collect(heap, roots(market_data_cache', tdata', tref))
    /\ tpc' = [tpc EXCEPT ![t] = return_to(t)]
    /\ mresp' = MarketResponse("fetch", t, "stored", market_data_cache', <<>>)
    /\ UNCHANGED <<mode, provider, tref, npolls>>

\* if ENABLE_SCHEDULER == "1": scheduler.start(); fetch_market_data()
initial_fetch ==
    /\ tpc["main"] = "import"
    /\ npolls < MaxPolls
    /\ fetch_begin("main")

\* The interval job of the scheduler; max_instances=1.
job ==
    /\ mode = "1"
    /\ tpc["sched"] = "idle"
    /\ npolls < MaxPolls
    /\ fetch_begin("sched")

\* market(): fetch on demand unless the scheduler is enabled, then jsonify.
market(t) ==
    /\ tpc["main"] = "done"
    /\ tpc[t] = "idle"
    /\ IF mode # "1"
       THEN npolls < MaxPolls /\ fetch_begin(t)
       ELSE /\ tpc' = [tpc EXCEPT ![t] = "jsonify"]
            /\ mresp' = NoMarketResp
            /\ UNCHANGED <<market_data_cache, heap, mode, provider, tdata, tidx, tref, npolls>>

\* jsonify(market_data_cache): the global is read once, the dict it names is serialised.
jsonify_load(t) ==
    /\ tpc[t] = "jsonify"
    /\ tref' = [tref EXCEPT ![t] = market_data_cache]
    /\ tpc' = [tpc EXCEPT ![t] = "serialize"]
    /\ mresp' = NoMarketResp
    /\ UNCHANGED <<market_data_cache, heap, mode, provider, tdata, tidx, npolls>>

jsonify_dump(t) ==
    /\ tpc[t] = "serialize"
    /\ mresp' = MarketResponse("market", t, "200", tref[t], heap[tref[t]])
    /\ tref' = [tref EXCEPT ![t] = 0]
    /\ heap' = collect(heap, roots(market_data_cache, tdata, tref'))
    /\ tpc' = [tpc EXCEPT ![t] = "idle"]
    /\ UNCHANGED <<market_data_cache, mode, provider, tdata, tidx, npolls>>

InitSpecMarket ==
    /\ users = <<>>
    /\ posts = <<>>
    /\ files = <<>>
    /\ nsaved = 0
    /\ session = [c \in Clients |-> Anonymous]
    /\ pc = [c \in Clients |-> "idle"]
    /\ local = [c \in Clients |-> NoLocal]
    /\ now = 0
    /\ resp = NoResp
    /\ market_data_cache = 0
    /\ heap = (0 :> <<>>)
    /\ mode \in {"0", "1"}
    /\ provider \in Providers
    /\ tpc = [t \in Threads |->
                IF t \in Requests THEN "idle"
                ELSE IF mode # "1" THEN (IF t = "main" THEN "done" ELSE "off")
                ELSE IF t = "main" THEN "import" ELSE "idle"]
    /\ tdata = [t \in Threads |-> NoData]
    /\ tidx = [t \in Threads |-> 0]
    /\ tref = [t \in Threads |-> 0]
    /\ npolls = 0
    /\ mresp = NoMarketResp

NextMarket ==
    \/ initial_fetch /\ UNCHANGED appvars
    \/ job /\ UNCHANGED appvars
    \/ \E t \in Requests : market(t) /\ UNCHANGED appvars
    \/ \E t \in Threads : fetch_Tickers(t) /\ UNCHANGED appvars
    \/ \E t \in Threads : fetch_ticker(t) /\ UNCHANGED appvars
    \/ \E t \in Threads : fetch_store(t) /\ UNCHANGED appvars
    \/ \E t \in Requests : jsonify_load(t) /\ UNCHANGED appvars
    \/ \E t \in Requests : jsonify_dump(t) /\ UNCHANGED appvars

SpecMarket == InitSpecMarket /\ [][NextMarket]_vars

(***************************************************************************)
(* Properties of registration and the sessions, under Spec.                *)
(***************************************************************************)
Stored(username) == \E i \in DOMAIN users : users[i].username = username

\* A step in which client c's request on `route` is answered.
Answered(route, c) == resp'.route = route /\ resp'.client = c /\ resp'.status # 0

\* C1: no two User rows have the same username, under any interleaving of
\* registrations; a registration whose username is stored when it is answered is
\* rejected (either by the handler's own look-up or by the commit) and adds no row.
C1_UsernamesUnique ==
    /\ [](\A i, j \in DOMAIN users : i # j => users[i].username # users[j].username)
    /\ [][\A c \in Clients :
            (Answered("register", c) /\ Stored(resp'.arg[1]))
                => /\ users' = users
                   /\ resp'.flash # "Account created. Please log in."
                   /\ \/ resp'.status = 200
                      \/ resp'.status = 302 /\ resp'.flash = "Username already taken"
                      \/ resp'.status = 500]_vars

\* Two registrations of one username raced: the second was refused at its commit.
C1_Witness ==
    /\ resp.route = "register"
    /\ resp.status = 500
    /\ Stored(resp.arg[1])

\* C9: a session becomes bound to user u only by a POST /login of u's username with
\* a password that verifies against u's hash; a login (both fields filled in) with
\* an unknown username or a wrong password leaves every session unchanged and is
\* answered 'Invalid credentials' in both cases alike; a logout leaves the session
\* anonymous, and only such a login binds it again.
C9_SessionOnlyByLogin ==
    [][/\ \A c \in Clients :
            (session'[c] # session[c] /\ session'[c] # Anonymous)
                => /\ Answered("login", c)
                   /\ \E i \in DOMAIN users :
                         /\ users[i].id = session'[c]
                         /\ users[i].username = resp'.arg[1]
                         /\ users[i].password_hash.digest =
                                digest(users[i].password_hash.salt, resp'.arg[2])
       /\ \A c \in Clients :
            (/\ Answered("login", c)
             /\ LoginForm_validate(resp'.arg[1], resp'.arg[2])
             /\ ~\E i \in DOMAIN users :
                   /\ users[i].username = resp'.arg[1]
                   /\ users[i].password_hash.digest =
                          digest(users[i].password_hash.salt, resp'.arg[2]))
                => /\ session' = session
                   /\ resp' = Response("login", c, resp'.arg, 200, "Invalid credentials",
                                       None, <<>>)
       /\ \A c \in Clients :
            (Answered("login", c) /\ ~LoginForm_validate(resp'.arg[1], resp'.arg[2]))
                => session' = session
       /\ \A c \in Clients :
            Answered("logout", c) => session'[c] = Anonymous /\ users' = users]_vars

\* A wrong password for a stored user was refused while the client stayed logged in.
C9_Witness ==
    /\ resp.route = "login"
    /\ resp.flash = "Invalid credentials"
    /\ Stored(resp.arg[1])
    /\ session[resp.client] # Anonymous

(***************************************************************************)
(* Properties of the uploads, under SpecUpload.                            *)
(***************************************************************************)
\* A step in which client c's POST /upload enters the handler.
Uploads(c) == pc[c] = "idle" /\ resp'.route = "upload" /\ resp'.client = c

\* A step in which client c's upload commits its Post row.
Commits(c) == pc[c] = "upload_commit" /\ resp'.route = "upload" /\ resp'.client = c

IsUserId(id) == \E i \in DOMAIN users : users[i].id = id

\* C5: an upload from a client whose session is not authenticated is redirected to
\* login, creates no Post row and writes no file; every Post row is created by a
\* session authenticated as a stored user and carries that user's id; every Post's
\* user_id is the id of a stored user.
C5_UploadNeedsLogin ==
    /\ [](\A i \in DOMAIN posts : IsUserId(posts[i].user_id))
    /\ [][/\ \A c \in Clients :
               (Uploads(c) /\ ~(session[c] # Anonymous /\ IsUserId(session[c])))
                   => /\ resp' = Unauthorized("upload", c, resp'.arg)
                      /\ posts' = posts
                      /\ files' = files
                      /\ pc'[c] = "idle"
          /\ posts' # posts
               => \E c \in Clients :
                     /\ Commits(c)
                     /\ session[c] # Anonymous
                     /\ IsUserId(session[c])
                     /\ Len(posts') = Len(posts) + 1
                     /\ SubSeq(posts', 1, Len(posts)) = posts
                     /\ posts'[Len(posts')].user_id = session[c]
          /\ files' # files
               => \E c \in Clients :
                     Uploads(c) /\ session[c] # Anonymous /\ IsUserId(session[c])]_vars

\* A client that posted and logged out was sent to login by its next upload.
C5_Witness ==
    /\ resp.route = "upload"
    /\ resp.location = "login"
    /\ session[resp.client] = Anonymous
    /\ \E i \in DOMAIN posts : \A c \in Clients : session[c] # posts[i].user_id

\* The text after the last '.' of a file name.
Extension(filename) ==
    LET dots == {i \in DOMAIN filename : filename[i] = "."}
    IN  SubSeq(filename, Max(dots) + 1, Len(filename))

EqualIgnoringCase(a, b) ==
    /\ Len(a) = Len(b)
    /\ \A i \in DOMAIN a : LowerChar(a[i]) = LowerChar(b[i])

\* What C6 says is accepted: an image part, a non-empty name, an allowed extension.
Acceptable(has_image, filename) ==
    /\ has_image
    /\ filename # <<>>
    /\ \E i \in DOMAIN filename : filename[i] = "."
    /\ \E e \in { <<"p", "n", "g">>, <<"j", "p", "g">>, <<"j", "p", "e", "g">>,
                  <<"g", "i", "f">> } : EqualIgnoringCase(Extension(filename), e)

\* C6: an authenticated upload writes a file and creates a Post row if and only if an
\* image part was supplied, its name is not empty and the text after the last '.' is,
\* ignoring case, png, jpg, jpeg or gif; every other upload is redirected to the feed
\* and changes neither the upload directory nor the Post table.
C6_UploadValidation ==
    [][\A c \in Clients :
         /\ (Uploads(c) /\ session[c] # Anonymous /\ IsUserId(session[c]))
              => IF Acceptable(resp'.arg[1], resp'.arg[2])
                 THEN /\ pc'[c] = "upload_commit"
                      /\ local'[c].filename \in DOMAIN files'
                      /\ files'[local'[c].filename] = nsaved'
                      /\ nsaved' = nsaved + 1
                      /\ posts' = posts
                 ELSE /\ resp'.status = 302
                      /\ resp'.location = "index"
                      /\ resp'.flash \in {"No image part", "No selected file",
                                          "Invalid file type"}
                      /\ files' = files
                      /\ posts' = posts
                      /\ pc'[c] = "idle"
         /\ Commits(c)
              => /\ resp'.flash = "Posted!"
                 /\ resp'.location = "index"
                 /\ Len(posts') = Len(posts) + 1
                 /\ posts'[Len(posts')].image_filename = local[c].filename
                 /\ files' = files]_vars

\* An upload named with an upper-case extension has written its file.
C6_Witness ==
    /\ resp.route = "upload"
    /\ resp.status = 0
    /\ pc[resp.client] = "upload_commit"
    /\ resp.arg[2] = <<"c", ".", "J", "P", "G">>
    /\ local[resp.client].filename \in DOMAIN files

\* C10: the file of an upload is on disk before its Post row is committed, and no
\* file and no Post is ever removed: every Post's image_filename names a file of the
\* upload directory in every state, also after a worker died inside an upload, and a
\* file saved by an upload that died before its commit stays without a Post.
C10_FileBeforePost ==
    /\ [](\A i \in DOMAIN posts : posts[i].image_filename \in DOMAIN files)
    /\ [][/\ DOMAIN files \subseteq DOMAIN files'
          /\ Len(posts) <= Len(posts')
          /\ SubSeq(posts', 1, Len(posts)) = posts
          /\ \A i \in DOMAIN posts' :
                i > Len(posts) => posts'[i].image_filename \in DOMAIN files
          /\ \A n \in DOMAIN files :
                (~\E i \in DOMAIN posts : posts[i].image_filename = n)
                /\ (\E i \in DOMAIN posts' : posts'[i].image_filename = n)
                    => \E c \in Clients : Commits(c) /\ local[c].filename = n]_vars

\* A worker died between file.save and the commit: a file without a Post, and no
\* upload in progress that could still commit one.
C10_Witness ==
    /\ \A c \in Clients : pc[c] = "idle"
    /\ resp.route # "crash"
    /\ \E n \in DOMAIN files : \A i \in DOMAIN posts : posts[i].image_filename # n

(***************************************************************************)
(* Properties of the listings and of the stored names, under SpecFeed.     *)
(***************************************************************************)
NewestFirst(rows) ==
    \A i, j \in DOMAIN rows : i < j => rows[i].created_at >= rows[j].created_at

\* rows lists each row of the set `wanted` once, and nothing else.
ListsExactly(rows, wanted) ==
    /\ Range(rows) = wanted
    /\ Len(rows) = Cardinality(wanted)

PostsOf(username) ==
    {posts[i] : i \in {j \in DOMAIN posts :
                          \E k \in DOMAIN users : /\ users[k].username = username
                                                  /\ users[k].id = posts[j].user_id}}

\* A post newer than every other post.
Newest(p) == \A i \in DOMAIN posts : posts[i] # p => posts[i].created_at < p.created_at

\* C7: the feed lists all posts and a profile exactly the posts of its user, each in
\* non-increasing order of created_at; a post newer than every other post is first in
\* the feed and first in its owner's profile.
C7_ListingsNewestFirst ==
    /\ (resp.route = "index")
          => /\ resp.status = 200
             /\ NewestFirst(resp.posts)
             /\ ListsExactly(resp.posts, Range(posts))
             /\ \A p \in Range(posts) : Newest(p) => resp.posts[1] = p
    /\ (resp.route = "profile")
          => IF Stored(resp.arg[1])
             THEN /\ resp.status = 200
                  /\ NewestFirst(resp.posts)
                  /\ ListsExactly(resp.posts, PostsOf(resp.arg[1]))
                  /\ \A p \in PostsOf(resp.arg[1]) : Newest(p) => resp.posts[1] = p
             ELSE resp.status = 404 /\ resp.posts = <<>>

\* The feed was read after a second, later post: the later post is listed first.
C7_Witness ==
    /\ resp.route = "index"
    /\ Len(resp.posts) >= 2
    /\ resp.posts[1].id > resp.posts[2].id
    /\ resp.posts[1].created_at > resp.posts[2].created_at

\* C8: two successful uploads are always stored under different file names: no two
\* Post rows share an image_filename and no upload replaces the file of an earlier one.
C8_StoredNamesDistinct ==
    \A i, j \in DOMAIN posts :
        i # j => /\ posts[i].image_filename # posts[j].image_filename
                 /\ posts[i].image_filename \in DOMAIN files
                 /\ posts[j].image_filename \in DOMAIN files

(***************************************************************************)
(* Properties of the market snapshot, under SpecMarket.                    *)
(***************************************************************************)
\* d is the whole result of one call of fetch_market_data: the five tickers, each
\* with the entry that call made for it.
ResultOfOnePoll(d) ==
    /\ DOMAIN d = Range(tickers)
    /\ \E n \in 1..npolls : \A k \in Range(tickers) : d[k] = quote(k, n)

\* C2 as stated: every response of GET /market has exactly the five ticker keys.
C2_AlwaysFiveKeys ==
    mresp.route = "market" => DOMAIN mresp.json = Range(tickers)

\* C2, amended: a response of GET /market has exactly the five ticker keys if some
\* fetch had succeeded when the snapshot was read, and is the empty object if none
\* had; once a fetch has succeeded the snapshot is never the initial empty one again.
C2_FiveKeysOnceFetched ==
    /\ [](mresp.route = "market"
            => IF mresp.ref = 0 THEN mresp.json = <<>>
               ELSE DOMAIN mresp.json = Range(tickers))
    /\ [](\A t \in Requests : tpc[t] = "serialize"
            => IF tref[t] = 0 THEN heap[tref[t]] = <<>>
               ELSE DOMAIN heap[tref[t]] = Range(tickers))
    /\ [][/\ market_data_cache # 0 => market_data_cache' # 0
          /\ (market_data_cache = 0 /\ market_data_cache' # 0)
                => mresp'.route = "fetch" /\ mresp'.outcome = "stored"]_vars

\* A fetch was made and failed, none has succeeded, and /market answered {}.
C2_Witness ==
    /\ mresp.route = "market"
    /\ mresp.json = <<>>
    /\ npolls >= 1

\* C3: a call of fetch_market_data that fails, before the first ticker or after some,
\* writes nothing to market_data_cache nor to the dict it names, and returns to its
\* caller; the snapshot is replaced only by a call that fetched all five tickers.
C3_FailedFetchKeepsSnapshot ==
    [][/\ \A t \in Threads :
            (mresp'.route = "fetch" /\ mresp'.thread = t
             /\ mresp'.outcome = "Market fetch error")
                => /\ market_data_cache' = market_data_cache
                   /\ heap'[market_data_cache'] = heap[market_data_cache]
                   /\ tpc'[t] = return_to(t)
       /\ (market_data_cache' # market_data_cache
           \/ heap'[market_data_cache'] # heap[market_data_cache])
                => \E t \in Threads :
                      /\ tpc[t] = "loop"
                      /\ tidx[t] = Len(tickers)
                      /\ DOMAIN heap[tdata[t].ref] = Range(tickers)
                      /\ market_data_cache' = tdata[t].ref
                      /\ heap'[market_data_cache'] = heap[tdata[t].ref]
                      /\ mresp'.outcome = "stored"]_vars

\* A fetch failed after it had fetched some tickers and after an earlier fetch had
\* succeeded: the earlier snapshot stands.
C3_Witness ==
    /\ mresp.route = "fetch"
    /\ mresp.outcome = "Market fetch error"
    /\ DOMAIN mresp.json # {}
    /\ market_data_cache # 0
    /\ ResultOfOnePoll(heap[market_data_cache])

\* C4: whatever a reader of the snapshot observes, under any interleaving with
\* polls, is the initial empty dict or the whole result of one poll that succeeded:
\* never entries of two polls, never the partial result of a poll in progress.
C4_ReadersSeeWholeSnapshots ==
    /\ mresp.route = "market"
          => mresp.json = <<>> \/ ResultOfOnePoll(mresp.json)
    /\ \A t \in Requests :
          tpc[t] = "serialize"
              => /\ heap[tref[t]] = <<>> \/ ResultOfOnePoll(heap[tref[t]])
                 /\ \A w \in Threads : tpc[w] \in {"Tickers", "loop"} => tdata[w].ref # tref[t]
    /\ heap[market_data_cache] = <<>> \/ ResultOfOnePoll(heap[market_data_cache])

\* A reader holds the snapshot of one poll while a later poll has replaced it and
\* another poll is filling its dict.
C4_Witness ==
    \E t \in Requests :
        /\ tpc[t] = "serialize"
        /\ tref[t] # 0
        /\ tref[t] # market_data_cache
        /\ \E w \in Threads : tpc[w] = "loop" /\ tidx[w] >= 1

=============================================================================
